---------------------------- MODULE Spec2Model ----------------------------
(*
  PrintVault printer-data build: Source A extraction (extract_fdm.py),
  Source B extraction (extract_sla.py) and the merge engine (main_build.py).

  Text is modelled as a sequence of character codes (ASCII), so that
  lower(), strip(), replace(), substring tests, the regular expressions and
  the ordering of strings are computed as Python computes them.
  Lengths are in thousandths of a millimetre (10 mm = 10000), so that
  round(v, 2) is a real rounding step.
*)
EXTENDS Integers, Sequences, FiniteSets, TLC

(***************************************************************************)
(* Bounds of the model                                                     *)
(***************************************************************************)
\* longest input list handed to merge_printers
MaxLen == 2
\* longest listing of resources/profiles
MaxBrands == 2
\* most entries the listings of the brand directories of one run hold together
MaxFiles == 2
\* most matches of the pattern in Machine.cs
MaxMatches == 2

(***************************************************************************)
(* Python str helpers                                                      *)
(***************************************************************************)
\* str.lower() on one ASCII character
LowerChar(c) == IF c >= 65 /\ c <= 90 THEN c + 32 ELSE c

\* str.lower()
str_lower(s) == [i \in 1..Len(s) |-> LowerChar(s[i])]

\* ASCII whitespace, as str.strip() and \s see it
IsSpace(c) == c \in {9, 10, 11, 12, 13, 32}

RECURSIVE str_lstrip(_)
str_lstrip(s) ==
    IF s # <<>> /\ IsSpace(s[1]) THEN str_lstrip(Tail(s)) ELSE s

RECURSIVE str_rstrip(_)
str_rstrip(s) ==
    IF s # <<>> /\ IsSpace(s[Len(s)])
    THEN str_rstrip(SubSeq(s, 1, Len(s) - 1))
    ELSE s

\* str.strip()
str_strip(s) == str_rstrip(str_lstrip(s))

\* s[i:] starts with p  (i is a 1-based position)
StartsAt(s, i, p) ==
    /\ i + Len(p) - 1 <= Len(s)
    /\ \A k \in 1..Len(p) : s[i + k - 1] = p[k]

\* str.startswith
str_startswith(s, p) == StartsAt(s, 1, p)

\* str.endswith
str_endswith(s, p) ==
    Len(p) <= Len(s) /\ StartsAt(s, Len(s) - Len(p) + 1, p)

\* `p in s` for two strings
str_contains(s, p) == \E i \in 1..(Len(s) - Len(p) + 1) : StartsAt(s, i, p)

\* position of the first occurrence of p in s at or after i, or 0
FindFrom(s, i, p) ==
    LET hits == {j \in i..Len(s) : StartsAt(s, j, p)}
    IN  IF hits = {} THEN 0 ELSE CHOOSE j \in hits : \A k \in hits : j <= k

\* s[i:].replace(old, new) for a non-empty old: leftmost, non-overlapping
RECURSIVE ReplaceFrom(_, _, _, _)
ReplaceFrom(s, i, old, new) ==
    LET j == FindFrom(s, i, old)
    IN  IF j = 0 THEN SubSeq(s, i, Len(s))
        ELSE SubSeq(s, i, j - 1) \o new \o ReplaceFrom(s, j + Len(old), old, new)

\* str.replace(old, new)
str_replace(s, old, new) == ReplaceFrom(s, 1, old, new)

\* a < b for two strings (code-point lexicographic order)
RECURSIVE StrLess(_, _)
StrLess(a, b) ==
    IF b = <<>> THEN FALSE
    ELSE IF a = <<>> THEN TRUE
    ELSE IF a[1] # b[1] THEN a[1] < b[1]
    ELSE StrLess(Tail(a), Tail(b))

\* (a1, a2) < (b1, b2) for two tuples of strings
PairLess(a1, a2, b1, b2) == StrLess(a1, b1) \/ (a1 = b1 /\ StrLess(a2, b2))

(***************************************************************************)
(* Text literals of the source                                             *)
(***************************************************************************)
chr_space      == <<32>>                               \* " "
chr_hyphen     == <<45>>                               \* "-"
chr_underscore == <<95>>                               \* "_"
chr_bar        == <<124>>                              \* "|"
str_fdm        == <<124, 102, 100, 109>>               \* "|fdm"
str_sla        == <<124, 115, 108, 97>>                \* "|sla"
\* "OrcaSlicer"
src_OrcaSlicer == <<79, 114, 99, 97, 83, 108, 105, 99, 101, 114>>
\* "UVtools"
src_UVtools == <<85, 86, 116, 111, 111, 108, 115>>

(***************************************************************************)
(* main_build.py: normalize_key, merge_printers                            *)
(***************************************************************************)
normalize_key(brand, model) ==
    LET brand_norm ==
            str_replace(str_strip(str_lower(brand)), chr_space, chr_underscore)
        model_norm ==
            str_replace(
                str_replace(str_strip(str_lower(model)),
                            chr_space, chr_underscore),
                chr_hyphen, chr_underscore)
    IN  brand_norm \o chr_bar \o model_norm

\* a variant of TechSuffix with the first loop's suffix pasted into the second
TechSuffix_fdm_only(tech) == str_fdm

\* the suffix merge_printers appends for each of its two loops
TechSuffix(tech) == IF tech = "FDM" THEN str_fdm ELSE str_sla

\* a variant of tech_key without the technology suffix
tech_key_no_suffix(printer, tech) ==
    normalize_key(printer.brand, printer.model)

\* the dictionary key of one printer in the loop for list `tech`
tech_key(printer, tech) ==
    normalize_key(printer.brand, printer.model) \o TechSuffix(tech)

\* `key in merged` for the insertion-ordered dictionary (a sequence of entries)
DictHas(d, key) == \E i \in 1..Len(d) : d[i].k = key

\* a variant of DictSet that keeps a list of entries: always appends
DictSet_append(d, key, value) == Append(d, [k |-> key, v |-> value])

\* merged[key] = value: overwrite in place, or append at the end
DictSet(d, key, value) ==
    IF DictHas(d, key)
    THEN [i \in 1..Len(d) |->
             IF d[i].k = key THEN [k |-> key, v |-> value] ELSE d[i]]
    ELSE Append(d, [k |-> key, v |-> value])

\* list(merged.values())
DictValues(d) == [i \in 1..Len(d) |-> d[i].v]

\* a variant of SortKeyLess that compares brand and model as stored
SortKeyLess_raw(p, q) == PairLess(p.brand, p.model, q.brand, q.model)

\* key(p) < key(q) for key = (brand.lower(), model.lower())
SortKeyLess(p, q) ==
    PairLess(str_lower(p.brand), str_lower(p.model),
             str_lower(q.brand), str_lower(q.model))

\* insert p into the sorted list s after every element not greater than it
RECURSIVE SortedInsert(_, _)
SortedInsert(s, p) ==
    IF s = <<>> THEN <<p>>
    ELSE IF SortKeyLess(p, s[1]) THEN <<p>> \o s
    ELSE <<s[1]>> \o SortedInsert(Tail(s), p)

\* a variant of sort_printers that leaves the list as it is
sort_printers_skip(s) == s

\* list.sort(key=lambda p: (p['brand'].lower(), p['model'].lower())): stable
RECURSIVE sort_printers(_)
sort_printers(s) ==
    IF s = <<>> THEN <<>>
    ELSE SortedInsert(sort_printers(SubSeq(s, 1, Len(s) - 1)), s[Len(s)])

\* one of the two insertion loops of merge_printers, run to its end
RECURSIVE MergeLoop(_, _, _)
MergeLoop(d, list, tech) ==
    IF list = <<>> THEN d
    ELSE MergeLoop(DictSet(d, tech_key(list[1], tech), list[1]),
                   Tail(list), tech)

\* merge_printers as a function of its two arguments
merge_printers(fdm, sla) ==
    sort_printers(DictValues(MergeLoop(MergeLoop(<<>>, fdm, "FDM"), sla, "SLA")))


(***************************************************************************)
(* Values                                                                  *)
(***************************************************************************)
\* A parsed JSON value (and Python's None) is [t |-> type, v |-> payload]:
\*   "null" (None), "str" (text), "num" (a number, in thousandths),
\*   "list" (a sequence of values), "obj" (a function from keys to values).
JNull == [t |-> "null", v |-> <<>>]
JStr(s) == [t |-> "str", v |-> s]
JNum(n) == [t |-> "num", v |-> n]
JList(l) == [t |-> "list", v |-> l]
JObj(f) == [t |-> "obj", v |-> f]

\* a raised exception, or a returned value
Raise(e) == [ok |-> FALSE, err |-> e, val |-> JNull]
Return(x) == [ok |-> TRUE, err |-> "none", val |-> x]

IsDigit(c) == c >= 48 /\ c <= 57

(***************************************************************************)
(* Text literals of extract_fdm.py and extract_sla.py                      *)
(***************************************************************************)
\* ".json"
str_json == <<46, 106, 115, 111, 110>>
\* "nozzle"
str_nozzle == <<110, 111, 122, 122, 108, 101>>
\* "mm"
str_mm == <<109, 109>>
\* "_cover.png"
str_cover == <<95, 99, 111, 118, 101, 114, 46, 112, 110, 103>>
\* "/"
str_slash == <<47>>
\* "%20"
str_pct20 == <<37, 50, 48>>
\* "printable_area"
key_printable_area == <<112, 114, 105, 110, 116, 97, 98, 108, 101, 95, 97, 114, 101, 97>>
\* "printable_height"
key_printable_height == <<112, 114, 105, 110, 116, 97, 98, 108, 101, 95, 104, 101, 105, 103, 104, 116>>
\* "https://raw.githubusercontent.com/SoftFever/OrcaSlicer/main"
GITHUB_RAW_BASE == <<104, 116, 116, 112, 115, 58, 47, 47, 114, 97, 119, 46, 103, 105, 116, 104, 117, 98, 117, 115, 101, 114, 99, 111, 110, 116, 101, 110, 116, 46, 99, 111, 109, 47, 83, 111, 102, 116, 70, 101, 118, 101, 114, 47, 79, 114, 99, 97, 83, 108, 105, 99, 101, 114, 47, 109, 97, 105, 110>>
\* "resources/profiles"
PROFILES_PATH == <<114, 101, 115, 111, 117, 114, 99, 101, 115, 47, 112, 114, 111, 102, 105, 108, 101, 115>>
\* hotend, hot end, all-metal, nozzle, plate, kit, extruder, sheet, smooth,
\* textured, satin, cool, engineering, high temp, hardened, chamber, auxiliary
BLACKLIST_KEYWORDS ==
    {<<104, 111, 116, 101, 110, 100>>,
     <<104, 111, 116, 32, 101, 110, 100>>,
     <<97, 108, 108, 45, 109, 101, 116, 97, 108>>,
     <<110, 111, 122, 122, 108, 101>>,
     <<112, 108, 97, 116, 101>>,
     <<107, 105, 116>>,
     <<101, 120, 116, 114, 117, 100, 101, 114>>,
     <<115, 104, 101, 101, 116>>,
     <<115, 109, 111, 111, 116, 104>>,
     <<116, 101, 120, 116, 117, 114, 101, 100>>,
     <<115, 97, 116, 105, 110>>,
     <<99, 111, 111, 108>>,
     <<101, 110, 103, 105, 110, 101, 101, 114, 105, 110, 103>>,
     <<104, 105, 103, 104, 32, 116, 101, 109, 112>>,
     <<104, 97, 114, 100, 101, 110, 101, 100>>,
     <<99, 104, 97, 109, 98, 101, 114>>,
     <<97, 117, 120, 105, 108, 105, 97, 114, 121>>}

\* custom, default, generic, unknown, test
BLACKLIST_MODELS ==
    {<<99, 117, 115, 116, 111, 109>>,
     <<100, 101, 102, 97, 117, 108, 116>>,
     <<103, 101, 110, 101, 114, 105, 99>>,
     <<117, 110, 107, 110, 111, 119, 110>>,
     <<116, 101, 115, 116>>}

(***************************************************************************)
(* Numbers: float() and round(., 2), in thousandths                        *)
(***************************************************************************)
\* the value of a run of decimal digits
RECURSIVE DigitsValue(_)
DigitsValue(s) ==
    IF s = <<>> THEN 0
    ELSE 10 * DigitsValue(SubSeq(s, 1, Len(s) - 1)) + (s[Len(s)] - 48)

\* the first three decimals of a fraction, as thousandths
FractionValue(s) ==
    DigitsValue(SubSeq(s \o <<48, 48, 48>>, 1, 3))

\* position of the first c in s, or Len(s) + 1
RECURSIVE IndexOf(_, _, _)
IndexOf(s, c, i) ==
    IF i > Len(s) THEN Len(s) + 1
    ELSE IF s[i] = c THEN i
    ELSE IndexOf(s, c, i + 1)

\* the value of unsigned decimal text whose integer part is ip and whose
\* fraction is fp, or ValueError when it is not digits with at least one digit
ParseDecimal(ip, fp, negative) ==
    IF /\ \A i \in 1..Len(ip) : IsDigit(ip[i])
       /\ \A i \in 1..Len(fp) : IsDigit(fp[i])
       /\ Len(ip) + Len(fp) >= 1
    THEN Return(JNum((IF negative THEN 0 - 1 ELSE 1)
                     * (1000 * DigitsValue(ip) + FractionValue(fp))))
    ELSE Raise("ValueError")

\* unsigned decimal text, split at its first point (at position dot)
ParseUnsigned(body, dot, negative) ==
    ParseDecimal(SubSeq(body, 1, dot - 1), SubSeq(body, dot + 1, Len(body)),
                 negative)

\* stripped text with its optional sign
ParseSigned(s) ==
    IF s # <<>> /\ s[1] \in {43, 45}
    THEN ParseUnsigned(Tail(s), IndexOf(Tail(s), 46, 1), s[1] = 45)
    ELSE ParseUnsigned(s, IndexOf(s, 46, 1), FALSE)

\* float(text) for plain decimal text ("220", "163.84", "-110", " 5 "):
\* surrounding whitespace, an optional sign, digits with at most one point and
\* at least one digit.  Anything else raises ValueError.  (Exponents, "inf"
\* and "nan" are outside the inputs of the model.)
ParseFloat(text) == ParseSigned(str_strip(text))

\* float(x) for a JSON value x
PyFloat(x) ==
    IF x.t = "num" THEN Return(x)
    ELSE IF x.t = "str" THEN ParseFloat(x.v)
    ELSE Raise("TypeError")

\* round(v, 2) for v >= 0: to the nearest hundredth, ties to the even one
Round2(v) ==
    LET q == v \div 10
        r == v % 10
    IN  IF r < 5 THEN 10 * q
        ELSE IF r > 5 THEN 10 * (q + 1)
        ELSE IF q % 2 = 0 THEN 10 * q ELSE 10 * (q + 1)

SeqMax(s) == CHOOSE m \in {s[i] : i \in 1..Len(s)} : \A i \in 1..Len(s) : s[i] <= m
SeqMin(s) == CHOOSE m \in {s[i] : i \in 1..Len(s)} : \A i \in 1..Len(s) : m <= s[i]

(***************************************************************************)
(* extract_fdm.py: parse_machine_json, parse_volume                        *)
(***************************************************************************)
\* parse_machine_json: the parsed body, or None when the request or the
\* JSON decoding fails
parse_machine_json(resp) ==
    IF resp.status = "ok" THEN resp.body ELSE JNull

\* bool(x)
Truthy(x) ==
    CASE x.t = "null" -> FALSE
      [] x.t = "str"  -> x.v # <<>>
      [] x.t = "num"  -> x.v # 0
      [] x.t = "list" -> x.v # <<>>
      [] x.t = "obj"  -> DOMAIN x.v # {}

\* the text of a key of a machine file
KeyText(key) ==
    IF key = "printable_area" THEN key_printable_area ELSE key_printable_height

\* `key in x`: a key of a dict, an element of a list, a substring of a str;
\* a number is not iterable
PyIn(key, x) ==
    CASE x.t = "obj"  -> Return(key \in DOMAIN x.v)
      [] x.t = "list" ->
            Return(\E i \in 1..Len(x.v) :
                      x.v[i].t = "str" /\ x.v[i].v = KeyText(key))
      [] x.t = "str"  -> Return(str_contains(x.v, KeyText(key)))
      [] OTHER        -> Raise("TypeError")

\* dict.get(key, default)
DictGet(d, key, default) == IF key \in DOMAIN d THEN d[key] ELSE default

\* point.split('x'): the first two parts (there are two when 'x' in point)
SplitX(point) ==
    LET i == IndexOf(point, 120, 1)
        j == IndexOf(point, 120, i + 1)
    IN  <<SubSeq(point, 1, i - 1), SubSeq(point, i + 1, j - 1)>>

\* float(parts[n]) for the n-th part of a point
PointCoord(point, n) == ParseFloat(SplitX(point.v)[n])

\* a point of the polygon contributes an x when it is a str with an 'x' in it
\* whose first part is a float
HasX(point) ==
    /\ point.t = "str"
    /\ str_contains(point.v, <<120>>)
    /\ PointCoord(point, 1).ok

\* it contributes a y when, after that, its second part is a float
HasY(point) ==
    /\ HasX(point)
    /\ PointCoord(point, 2).ok

\* the i-th (from 1) element of the set of positions idx, in increasing order
NthIndex(idx, i) ==
    CHOOSE k \in idx : Cardinality({j \in idx : j < k}) = i - 1

\* the n-th coordinates of the points at the positions idx, in their order
CoordsAt(area, idx, n) ==
    [i \in 1..Cardinality(idx) |-> PointCoord(area[NthIndex(idx, i)], n).val.v]

\* the x_coords of the loop over the polygon
XCoords(area) == CoordsAt(area, {k \in 1..Len(area) : HasX(area[k])}, 1)

\* the y_coords of that loop
YCoords(area) == CoordsAt(area, {k \in 1..Len(area) : HasY(area[k])}, 2)

\* max - min of both lists when both are non-empty, else zeros
BoundingBox(xs, ys) ==
    IF xs # <<>> /\ ys # <<>>
    THEN [x |-> Round2(SeqMax(xs) - SeqMin(xs)),
          y |-> Round2(SeqMax(ys) - SeqMin(ys))]
    ELSE [x |-> 0, y |-> 0]

\* the loop over the points runs for a list of at least 4 of them
PolygonOf(area) ==
    IF area.t = "list" /\ Len(area.v) >= 4
    THEN BoundingBox(XCoords(area.v), YCoords(area.v))
    ELSE [x |-> 0, y |-> 0]

\* Method 1 of parse_volume: the bounding box of printable_area, or zeros
PolygonFootprint(data) == PolygonOf(DictGet(data, "printable_area", JNull))

\* float(bed_width) then float(bed_depth): both, or the first exception
BothFloats(bw, bd) ==
    IF ~bw.ok THEN bw
    ELSE IF ~bd.ok THEN bd
    ELSE Return([x |-> bw.val.v, y |-> bd.val.v])

\* Method 2 of parse_volume, for the footprint poly of Method 1: when x is
\* still 0 the direct fields replace x and y
DirectFootprint(data, poly) ==
    IF poly.x # 0 THEN Return(poly)
    ELSE BothFloats(PyFloat(DictGet(data, "bed_width", JNum(0))),
                    PyFloat(DictGet(data, "bed_depth", JNum(0))))

\* the height: printable_height, else machine_max_print_height, else 0
HeightOf(data) ==
    PyFloat(DictGet(data, "printable_height",
                    DictGet(data, "machine_max_print_height", JNum(0))))

\* the volume of a footprint and a height, or the first exception
VolumeOf(xy, z) ==
    IF ~xy.ok THEN xy
    ELSE IF ~z.ok THEN z
    ELSE Return([x |-> xy.val.x, y |-> xy.val.y, z |-> z.val.v])

\* parse_volume(data) for a dict: the volume, or the exception of a float()
parse_volume(data) ==
    VolumeOf(DirectFootprint(data, PolygonFootprint(data)), HeightOf(data))

(***************************************************************************)
(* extract_fdm.py: get_base_model_name, is_blacklisted, find_image_url     *)
(***************************************************************************)
\* first position at or after i whose character is not whitespace
RECURSIVE SkipSpaces(_, _)
SkipSpaces(s, i) ==
    IF i <= Len(s) /\ IsSpace(s[i]) THEN SkipSpaces(s, i + 1) ELSE i

\* first position at or after i whose character is not a digit
RECURSIVE SkipDigits(_, _)
SkipDigits(s, i) ==
    IF i <= Len(s) /\ IsDigit(s[i]) THEN SkipDigits(s, i + 1) ELSE i

\* s[i:] starts with p, ignoring case (p is lower-case)
StartsAtNoCase(s, i, p) ==
    /\ i + Len(p) - 1 <= Len(s)
    /\ \A k \in 1..Len(p) : LowerChar(s[i + k - 1]) = p[k]

\* \s+\d+(\.\d+)?\s*(mm)?\s*nozzle at the start of s, ignoring case:
\* the position after the match, or 0.  The character classes that follow
\* each other are disjoint, so the greedy match is the only match.
NozzleSpecEnd(s) ==
    LET a == SkipSpaces(s, 1)
        b == SkipDigits(s, a)
        c == IF b <= Len(s) /\ s[b] = 46 /\ SkipDigits(s, b + 1) > b + 1
             THEN SkipDigits(s, b + 1) ELSE b
        d == SkipSpaces(s, c)
        e == IF StartsAtNoCase(s, d, str_mm) THEN d + 2 ELSE d
        f == SkipSpaces(s, e)
    IN  IF a > 1 /\ b > a /\ StartsAtNoCase(s, f, str_nozzle)
        THEN f + Len(str_nozzle) ELSE 0

\* re.sub(r'\s+\d+(\.\d+)?\s*(mm)?\s*nozzle', '', name, flags=re.IGNORECASE)
RECURSIVE SubNozzleSpec(_)
SubNozzleSpec(s) ==
    LET e == NozzleSpecEnd(s)
    IN  IF s = <<>> THEN <<>>
        ELSE IF e > 0 THEN SubNozzleSpec(SubSeq(s, e, Len(s)))
        ELSE <<s[1]>> \o SubNozzleSpec(Tail(s))

\* position of the last c in s[1..hi], or 0
RECURSIVE LastIndexOf(_, _, _)
LastIndexOf(s, c, hi) ==
    IF hi < 1 THEN 0
    ELSE IF s[hi] = c THEN hi
    ELSE LastIndexOf(s, c, hi - 1)

\* \s*\(.*nozzle.*\) at the start of s, ignoring case: the position after the
\* match, or 0.  '.' stops at a newline; both .* are greedy, so the match ends
\* at the last ')' of the line, provided a "nozzle" lies between.
NozzleParenEnd(s) ==
    LET a == SkipSpaces(s, 1)
        eol == IndexOf(s, 10, a) - 1
        r == LastIndexOf(s, 41, eol)
    IN  IF a <= Len(s) /\ s[a] = 40 /\ r > a
           /\ \E k \in (a + 1)..(r - Len(str_nozzle)) :
                 StartsAtNoCase(s, k, str_nozzle)
        THEN r + 1 ELSE 0

\* re.sub(r'\s*\(.*nozzle.*\)', '', name, flags=re.IGNORECASE)
RECURSIVE SubNozzleParen(_)
SubNozzleParen(s) ==
    LET e == NozzleParenEnd(s)
    IN  IF s = <<>> THEN <<>>
        ELSE IF e > 0 THEN SubNozzleParen(SubSeq(s, e, Len(s)))
        ELSE <<s[1]>> \o SubNozzleParen(Tail(s))

get_base_model_name(name, brand) ==
    LET stripped ==
            IF str_startswith(str_lower(name), str_lower(brand) \o chr_space)
            THEN str_strip(SubSeq(name, Len(brand) + 2, Len(name)))
            ELSE name
    IN  str_strip(SubNozzleParen(SubNozzleSpec(stripped)))

is_blacklisted(name) ==
    LET lowered == str_lower(name)
    IN  \E kw \in BLACKLIST_KEYWORDS : str_contains(lowered, kw)

\* the two candidate paths of find_image_url
ImageCandidates(brand, model) ==
    LET dir == GITHUB_RAW_BASE \o str_slash \o PROFILES_PATH \o str_slash
                 \o brand \o str_slash
        safe_name == str_replace(brand \o chr_space \o model,
                                 chr_space, chr_underscore)
    IN  <<dir \o brand \o chr_space \o model \o str_cover,
          dir \o safe_name \o str_cover>>

\* find_image_url: the first candidate whose HEAD request answers 200
\* (`found` is the set of candidates that do), with ' ' as '%20'; else None
find_image_url(brand, model, found) ==
    IF 1 \in found
    THEN JStr(str_replace(ImageCandidates(brand, model)[1], chr_space, str_pct20))
    ELSE IF 2 \in found
    THEN JStr(str_replace(ImageCandidates(brand, model)[2], chr_space, str_pct20))
    ELSE JNull

\* the extractors' dedup key: f"{brand.lower()}|{model.lower()}"
unique_key(brand, model) == str_lower(brand) \o chr_bar \o str_lower(model)

(***************************************************************************)
(* Printer records                                                         *)
(***************************************************************************)
Printer(brand, model, technology, volume, image_url, source) ==
    [brand |-> brand, model |-> model, technology |-> technology,
     volume |-> volume, image_url |-> image_url, source |-> source]

\* every sequence over S of length at most n
SeqUpTo(S, n) == UNION {[1..k -> S] : k \in 0..n}


(***************************************************************************)
(* What the upstream repositories may answer                               *)
(***************************************************************************)
\* "Creality"
brand_Creality == <<67, 114, 101, 97, 108, 105, 116, 121>>
\* "Anycubic"
brand_Anycubic == <<65, 110, 121, 99, 117, 98, 105, 99>>
\* "Ender 3"
model_Ender_3 == <<69, 110, 100, 101, 114, 32, 51>>

\* entries of the listing of resources/profiles: name and type
RootEntries ==
    {[name |-> brand_Creality, type |-> "dir"],
     [name |-> brand_Anycubic, type |-> "dir"],
     [name |-> <<98, 108, 97, 99, 107, 108, 105, 115, 116, 46, 106, 115, 111, 110>>, type |-> "file"]}      \* "blacklist.json"

\* entries of the listing of a brand directory: name, and whether the entry
\* carries a download_url
DirEntries ==
    {[name |-> <<69, 110, 100, 101, 114, 45, 51, 46, 106, 115, 111, 110>>, download_url |-> TRUE],     \* "Ender-3.json"
     [name |-> <<75, 49, 46, 106, 115, 111, 110>>, download_url |-> TRUE],          \* "K1.json"
     [name |-> <<102, 100, 109, 46, 106, 115, 111, 110>>, download_url |-> FALSE],        \* "fdm.json"
     [name |-> <<75, 49, 95, 99, 111, 118, 101, 114, 46, 112, 110, 103>>, download_url |-> TRUE]}     \* "K1_cover.png"

\* every sequence over S of length at most n without a repeated element
DistinctSeqUpTo(S, n) ==
    {s \in SeqUpTo(S, n) : \A i, j \in 1..Len(s) : i # j => s[i] # s[j]}

\* the bodies a machine file may hold
BodyIds ==
    {"null", "number", "list_with_key", "config", "nozzle",
     "ender3", "ender3_small", "empty_model", "bad_height", "no_name",
     "number_model"}

\* the answers to the GET of a machine file: a failure, or a body
ResponseIds == {"request_failed", "invalid_json"} \cup BodyIds

\* null
body_null ==
    JNull

\* 5
body_number ==
    JNum(5000)

\* ["printable_area"]
body_list_with_key ==
    JList(<<JStr(key_printable_area)>>)

\* {"name": "fdm_machine_common"}
body_config ==
    JObj([name |-> JStr(<<102, 100, 109, 95, 109, 97, 99, 104, 105, 110, 101, 95, 99, 111, 109, 109, 111, 110>>)])

\* {"name": "Creality Ender 3 0.4mm nozzle", "printable_area": ["0x0","220x0","220x220","0x220"], "printable_height": "250"}
body_nozzle ==
    JObj([name |-> JStr(<<67, 114, 101, 97, 108, 105, 116, 121, 32, 69, 110, 100, 101, 114, 32, 51, 32, 48, 46, 52, 109, 109, 32, 110, 111, 122, 122, 108, 101>>),
             printable_area |-> JList(<<JStr(<<48, 120, 48>>), JStr(<<50, 50, 48, 120, 48>>), JStr(<<50, 50, 48, 120, 50, 50, 48>>), JStr(<<48, 120, 50, 50, 48>>)>>),
             printable_height |-> JStr(<<50, 53, 48>>)])

\* {"printer_model": "Creality Ender 3", "name": "Creality Ender 3 V2", "printable_area": ["-5x-5","230x-5","230x230","-5x230"], "machine_max_print_height": 250}
body_ender3 ==
    JObj([printer_model |-> JStr(<<67, 114, 101, 97, 108, 105, 116, 121, 32, 69, 110, 100, 101, 114, 32, 51>>),
             name |-> JStr(<<67, 114, 101, 97, 108, 105, 116, 121, 32, 69, 110, 100, 101, 114, 32, 51, 32, 86, 50>>),
             printable_area |-> JList(<<JStr(<<45, 53, 120, 45, 53>>), JStr(<<50, 51, 48, 120, 45, 53>>), JStr(<<50, 51, 48, 120, 50, 51, 48>>), JStr(<<45, 53, 120, 50, 51, 48>>)>>),
             machine_max_print_height |-> JNum(250000)])

\* {"printer_model": "Creality Ender 3", "printable_area": ["0x0","9.994x0","9.994x9.994","0x9.994"], "printable_height": "250"}
body_ender3_small ==
    JObj([printer_model |-> JStr(<<67, 114, 101, 97, 108, 105, 116, 121, 32, 69, 110, 100, 101, 114, 32, 51>>),
             printable_area |-> JList(<<JStr(<<48, 120, 48>>), JStr(<<57, 46, 57, 57, 52, 120, 48>>), JStr(<<57, 46, 57, 57, 52, 120, 57, 46, 57, 57, 52>>), JStr(<<48, 120, 57, 46, 57, 57, 52>>)>>),
             printable_height |-> JStr(<<50, 53, 48>>)])

\* {"printer_model": "", "name": "Creality K1", "printable_area": [...220 square...], "printable_height": "250"}
body_empty_model ==
    JObj([printer_model |-> JStr(<<>>),
             name |-> JStr(<<67, 114, 101, 97, 108, 105, 116, 121, 32, 75, 49>>),
             printable_area |-> JList(<<JStr(<<48, 120, 48>>), JStr(<<50, 50, 48, 120, 48>>), JStr(<<50, 50, 48, 120, 50, 50, 48>>), JStr(<<48, 120, 50, 50, 48>>)>>),
             printable_height |-> JStr(<<50, 53, 48>>)])

\* {"name": "Creality K1 Max", "printable_height": "tall"}
body_bad_height ==
    JObj([name |-> JStr(<<67, 114, 101, 97, 108, 105, 116, 121, 32, 75, 49, 32, 77, 97, 120>>),
             printable_height |-> JStr(<<116, 97, 108, 108>>)])

\* {"printable_height": 250, "bed_width": 220, "bed_depth": 220}
body_no_name ==
    JObj([printable_height |-> JNum(250000),
             bed_width |-> JNum(220000),
             bed_depth |-> JNum(220000)])

\* {"printer_model": 3, "printable_height": 250, "bed_width": 220}
body_number_model ==
    JObj([printer_model |-> JNum(3000),
             printable_height |-> JNum(250000),
             bed_width |-> JNum(220000)])

Body(id) ==
    CASE id = "null" -> body_null
      [] id = "number" -> body_number
      [] id = "list_with_key" -> body_list_with_key
      [] id = "config" -> body_config
      [] id = "nozzle" -> body_nozzle
      [] id = "ender3" -> body_ender3
      [] id = "ender3_small" -> body_ender3_small
      [] id = "empty_model" -> body_empty_model
      [] id = "bad_height" -> body_bad_height
      [] id = "no_name" -> body_no_name
      [] id = "number_model" -> body_number_model
      [] OTHER -> JNull

Response(id) ==
    [status |-> IF id \in BodyIds THEN "ok" ELSE id, body |-> Body(id)]

\* the matches re.findall may return for Machine.cs: the captured brand,
\* model, display width, display height and machine Z (the two resolution
\* groups are not read)
MatchIds == {"ender3_sla", "ender3_lower", "tiny", "custom", "photon", "bad_float"}

\* new(PrinterBrand.Creality, "Ender 3", .., .., 163.84f, 102.40f, 180f, ...)
match_ender3_sla ==
    [brand |-> <<67, 114, 101, 97, 108, 105, 116, 121>>,
     model |-> <<69, 110, 100, 101, 114, 32, 51>>,
     display_width |-> <<49, 54, 51, 46, 56, 52>>,
     display_height |-> <<49, 48, 50, 46, 52, 48>>,
     machine_z |-> <<49, 56, 48>>]

\* new(PrinterBrand.Creality, "ender 3", .., .., 120f, 68f, 150f, ...)
match_ender3_lower ==
    [brand |-> <<67, 114, 101, 97, 108, 105, 116, 121>>,
     model |-> <<101, 110, 100, 101, 114, 32, 51>>,
     display_width |-> <<49, 50, 48>>,
     display_height |-> <<54, 56>>,
     machine_z |-> <<49, 53, 48>>]

\* new(PrinterBrand.Creality, "Tiny", .., .., 5.5f, 5.5f, 50f, ...)
match_tiny ==
    [brand |-> <<67, 114, 101, 97, 108, 105, 116, 121>>,
     model |-> <<84, 105, 110, 121>>,
     display_width |-> <<53, 46, 53>>,
     display_height |-> <<53, 46, 53>>,
     machine_z |-> <<53, 48>>]

\* new(PrinterBrand.Creality, "Custom", .., .., 120f, 68f, 150f, ...)
match_custom ==
    [brand |-> <<67, 114, 101, 97, 108, 105, 116, 121>>,
     model |-> <<67, 117, 115, 116, 111, 109>>,
     display_width |-> <<49, 50, 48>>,
     display_height |-> <<54, 56>>,
     machine_z |-> <<49, 53, 48>>]

\* new(PrinterBrand.Anycubic, "Photon M3", .., .., 163.84f, 102.40f, 180f, ...)
match_photon ==
    [brand |-> <<65, 110, 121, 99, 117, 98, 105, 99>>,
     model |-> <<80, 104, 111, 116, 111, 110, 32, 77, 51>>,
     display_width |-> <<49, 54, 51, 46, 56, 52>>,
     display_height |-> <<49, 48, 50, 46, 52, 48>>,
     machine_z |-> <<49, 56, 48>>]

\* new(PrinterBrand.Anycubic, "Photon X", .., .., 1.2.3f, 68f, 150f, ...)
match_bad_float ==
    [brand |-> <<65, 110, 121, 99, 117, 98, 105, 99>>,
     model |-> <<80, 104, 111, 116, 111, 110, 32, 88>>,
     display_width |-> <<49, 46, 50, 46, 51>>,
     display_height |-> <<54, 56>>,
     machine_z |-> <<49, 53, 48>>]

Match(id) ==
    CASE id = "ender3_sla" -> match_ender3_sla
      [] id = "ender3_lower" -> match_ender3_lower
      [] id = "tiny" -> match_tiny
      [] id = "custom" -> match_custom
      [] id = "photon" -> match_photon
      [] OTHER -> match_bad_float

(***************************************************************************)
(* extract_fdm.py: get_brands, get_machine_files, the loop body            *)
(***************************************************************************)
\* get_brands: the names of the entries of type 'dir'
RECURSIVE DirNames(_)
DirNames(contents) ==
    IF contents = <<>> THEN <<>>
    ELSE IF contents[1].type = "dir"
         THEN <<contents[1].name>> \o DirNames(Tail(contents))
         ELSE DirNames(Tail(contents))

\* get_machine_files: the entries whose name ends with '.json'
RECURSIVE JsonFiles(_)
JsonFiles(contents) ==
    IF contents = <<>> THEN <<>>
    ELSE IF str_endswith(contents[1].name, str_json)
         THEN <<contents[1]>> \o JsonFiles(Tail(contents))
         ELSE JsonFiles(Tail(contents))

\* data.get('printer_model', data.get('name', file_info['name'].replace('.json', '')))
RawName(data, file_info) ==
    DictGet(data, "printer_model",
            DictGet(data, "name",
                    JStr(str_replace(file_info.name, str_json, <<>>))))

\* what one pass of the loop body does
Pass(outcome, err, add, key, emit) ==
    [outcome |-> outcome, err |-> err, add |-> add, key |-> key, emit |-> emit]

\* a variant of SeenKeys that only records the key of a printer it keeps
SeenKeys_after_volume(seen_, key, kept) ==
    IF kept THEN seen_ \cup {key} ELSE seen_

\* seen.add(unique_key), which the loop body runs before it parses the volume
SeenKeys(seen_, key, kept) == seen_ \cup {key}

\* if volume['x'] < 10
VolumeTooSmall(volume) == volume.x < 10000

\* a pass that appends nothing
Skip(outcome, err, add, key) == Pass(outcome, err, add, key, <<>>)

\* the end of the loop body, once the volume is parsed (seen.add has run)
WithVolume(brand, model, key, volume, found) ==
    IF ~volume.ok
    THEN Skip("raised", volume.err, SeenKeys({}, key, FALSE), key)
    ELSE IF VolumeTooSmall(volume.val)
    THEN Skip("volume", "none", SeenKeys({}, key, FALSE), key)
    ELSE Pass("emitted", "none", SeenKeys({}, key, TRUE), key,
              <<Printer(brand, model, "FDM", volume.val,
                        find_image_url(brand, model, found),
                        JStr(src_OrcaSlicer))>>)

\* the dedup on unique_key, then the volume
WithKey(brand, model, key, data, found, seen_) ==
    IF key \in seen_ THEN Skip("duplicate", "none", {}, key)
    ELSE WithVolume(brand, model, key, parse_volume(data), found)

\* the loop body from base_model on
WithModel(brand, model, data, found, seen_) ==
    WithKey(brand, model, unique_key(brand, model), data, found, seen_)

\* the loop body from the blacklist test on raw_name on
WithName(brand, raw_name, data, found, seen_) ==
    IF raw_name.t # "str" THEN Skip("raised", "AttributeError", {}, <<>>)
    ELSE IF is_blacklisted(raw_name.v) THEN Skip("blacklisted", "none", {}, <<>>)
    ELSE WithModel(brand, get_base_model_name(raw_name.v, brand), data,
                   found, seen_)

\* the loop body once `'printable_area' in data` (hasArea) and
\* `'printable_height' in data` (hasHeight) are evaluated
WithKeys(brand, file_info, data, hasArea, hasHeight, found, seen_) ==
    IF ~hasArea.ok THEN Skip("raised", hasArea.err, {}, <<>>)
    ELSE IF ~hasArea.val /\ ~hasHeight.val
    THEN Skip("not_printer", "none", {}, <<>>)
    ELSE IF data.t # "obj" THEN Skip("raised", "AttributeError", {}, <<>>)
    ELSE WithName(brand, RawName(data.v, file_info), data.v, found, seen_)

\* the loop body from `if not data` on
WithData(brand, file_info, data, found, seen_) ==
    IF ~Truthy(data) THEN Skip("no_data", "none", {}, <<>>)
    ELSE WithKeys(brand, file_info, data, PyIn("printable_area", data),
                  PyIn("printable_height", data), found, seen_)

\* the body of the loop over machine_files for one file: `resp` is the answer
\* to its GET, `found` the image candidates that exist
LoopBody(brand, file_info, resp, found, seen_) ==
    IF ~file_info.download_url THEN Skip("no_url", "none", {}, <<>>)
    ELSE WithData(brand, file_info, parse_machine_json(resp), found, seen_)

(***************************************************************************)
(* extract_sla.py: the body of the loop of parse_machines                  *)
(***************************************************************************)
\* model.lower() in BLACKLIST_MODELS
IsPlaceholder(model) == str_lower(model) \in BLACKLIST_MODELS

\* the end of the loop body of parse_machines: the three float() calls
SlaWithFloats(match, key, w, h, z) ==
    IF ~w.ok \/ ~h.ok \/ ~z.ok
    THEN Skip("raised", "ValueError", {key}, key)
    ELSE Pass("emitted", "none", {key}, key,
              <<Printer(match.brand, match.model, "SLA",
                        [x |-> Round2(w.val.v), y |-> Round2(h.val.v),
                         z |-> Round2(z.val.v)],
                        JNull, JStr(src_UVtools))>>)

\* the dedup on the key, then the floats
SlaWithKey(match, key, seen_) ==
    IF key \in seen_ THEN Skip("duplicate", "none", {}, key)
    ELSE SlaWithFloats(match, key, ParseFloat(match.display_width),
                       ParseFloat(match.display_height),
                       ParseFloat(match.machine_z))

\* the body of the loop over the matches of the regex for one match
SlaLoopBody(match, seen_) ==
    IF IsPlaceholder(match.model) THEN Skip("blacklisted", "none", {}, <<>>)
    ELSE SlaWithKey(match, unique_key(match.brand, match.model), seen_)

(***************************************************************************)
(* State                                                                   *)
(***************************************************************************)
VARIABLES
    pc,            \* position of main(): the step that runs next
    err,           \* the uncaught exception that ended main(), if any
    brands,        \* extract_fdm_printers: the list get_brands returned
    bi,            \* extract_fdm_printers: index of the running brand
    machine_files, \* extract_fdm_printers: the files of the running brand
    fi,            \* extract_fdm_printers: index of the next file
    nlisted,       \* history: number of directory entries listed so far
    seen,          \* extract_fdm_printers: the dedup keys met so far
    printers,      \* extract_fdm_printers: the records kept so far
    last,          \* history: the last candidate file and what became of it
    vol_rejected,  \* history: the keys whose candidate failed the volume check
    sla_seen,      \* parse_machines: the dedup keys met so far
    sla_printers,  \* parse_machines: the records kept so far
    nmatch,        \* parse_machines: number of matches handled
    fdm_list,      \* merge_printers: its first argument
    sla_list,      \* merge_printers: its second argument
    mi,            \* merge_printers: index of the next printer of the running loop
    merged,        \* merge_printers: the dictionary, in insertion order
    overwrites,    \* history: how often an assignment to merged hit an existing key
    all_printers   \* main(): the merged, sorted list

fdm_vars ==
    <<brands, bi, machine_files, fi, nlisted, seen, printers, last, vol_rejected>>
sla_vars == <<sla_seen, sla_printers, nmatch>>
merge_vars == <<mi, merged, overwrites, all_printers>>
vars == <<pc, err, fdm_vars, sla_vars, fdm_list, sla_list, merge_vars>>

NoError == [where |-> "none", type |-> "none"]

NoCandidate == [response |-> "none", outcome |-> "none"]

\* the locals of extract_fdm_printers before it runs and after it returns
FdmIdle ==
    /\ brands = <<>> /\ bi = 1 /\ machine_files = <<>> /\ fi = 1 /\ nlisted = 0
    /\ seen = {} /\ printers = <<>>
    /\ last = NoCandidate /\ vol_rejected = {}

\* the locals of parse_machines before it runs and after it returns
SlaIdle == sla_seen = {} /\ sla_printers = <<>> /\ nmatch = 0

\* the locals of merge_printers before it runs
MergeIdle == mi = 1 /\ merged = <<>> /\ overwrites = 0 /\ all_printers = <<>>

Init ==
    /\ pc = "get_brands"
    /\ err = NoError
    /\ FdmIdle /\ SlaIdle /\ MergeIdle
    /\ fdm_list = <<>>
    /\ sla_list = <<>>

(***************************************************************************)
(* extract_fdm_printers                                                    *)
(***************************************************************************)
\* brands = get_brands(): the directory names of the listing, [] on a failure
GetBrands ==
    /\ pc = "get_brands"
    /\ \E ok \in BOOLEAN, contents \in DistinctSeqUpTo(RootEntries, MaxBrands) :
          brands' = IF ok THEN DirNames(contents) ELSE <<>>
    /\ bi' = 1
    /\ pc' = "fdm_brand"
    /\ UNCHANGED <<err, machine_files, fi, nlisted, seen, printers, last,
                   vol_rejected, sla_vars, fdm_list, sla_list, merge_vars>>

\* for brand in brands: machine_files = get_machine_files(brand): the .json
\* entries of the listing (of brand/machine, or of brand after a 404), [] on a
\* failure.  The listings of one run hold at most MaxFiles entries together.
GetMachineFiles ==
    /\ pc = "fdm_brand"
    /\ bi <= Len(brands)
    /\ \E ok \in BOOLEAN,
          contents \in DistinctSeqUpTo(DirEntries, MaxFiles - nlisted) :
          /\ machine_files' = IF ok THEN JsonFiles(contents) ELSE <<>>
          /\ nlisted' = nlisted + Len(contents)
    /\ fi' = 1
    /\ pc' = "fdm_file"
    /\ UNCHANGED <<err, brands, bi, seen, printers, last, vol_rejected,
                   sla_vars, fdm_list, sla_list, merge_vars>>

\* for file_info in machine_files: one pass of the loop body
FdmFile ==
    /\ pc = "fdm_file"
    /\ fi <= Len(machine_files)
    /\ \E response \in ResponseIds, found \in SUBSET {1, 2} :
          \E pass \in {LoopBody(brands[bi], machine_files[fi], Response(response),
                                found, seen)} :
              \* the image candidates are only probed for a printer that is kept
              /\ found # {} => pass.outcome = "emitted"
              /\ seen' = seen \cup pass.add
              /\ printers' = printers \o pass.emit
              /\ last' = [response |-> response, outcome |-> pass.outcome]
              /\ vol_rejected' = IF pass.outcome = "volume"
                                 THEN vol_rejected \cup {pass.key}
                                 ELSE vol_rejected
              /\ IF pass.outcome = "raised"
                 THEN /\ pc' = "raised"
                      /\ err' = [where |-> "extract_fdm_printers", type |-> pass.err]
                      /\ fi' = fi
                 ELSE /\ pc' = pc
                      /\ err' = err
                      /\ fi' = fi + 1
    /\ UNCHANGED <<brands, bi, machine_files, nlisted, sla_vars, fdm_list,
                   sla_list, merge_vars>>

\* the files of the brand are exhausted: on to the next brand (the list of
\* files is rebound before it is read again, so it is dropped here)
FdmBrandDone ==
    /\ pc = "fdm_file"
    /\ fi > Len(machine_files)
    /\ bi' = bi + 1
    /\ machine_files' = <<>>
    /\ fi' = 1
    /\ last' = NoCandidate
    /\ pc' = "fdm_brand"
    /\ UNCHANGED <<err, brands, nlisted, seen, printers, vol_rejected, sla_vars,
                   fdm_list, sla_list, merge_vars>>

\* return printers; main() keeps them as fdm_printers
FdmReturn ==
    /\ pc = "fdm_brand"
    /\ bi > Len(brands)
    /\ fdm_list' = printers
    /\ brands' = <<>> /\ bi' = 1 /\ machine_files' = <<>> /\ fi' = 1
    /\ nlisted' = 0
    /\ seen' = {} /\ printers' = <<>>
    /\ last' = NoCandidate /\ vol_rejected' = {}
    /\ pc' = "sla_fetch"
    /\ UNCHANGED <<err, sla_vars, sla_list, merge_vars>>

(***************************************************************************)
(* extract_sla_printers                                                    *)
(***************************************************************************)
\* cs_content = fetch_machine_cs(); if not cs_content: return []
SlaFetch ==
    /\ pc = "sla_fetch"
    /\ \E ok \in BOOLEAN :
          IF ok
          THEN /\ pc' = "sla_parse"
               /\ UNCHANGED sla_list
          ELSE /\ pc' = "merge_fdm"
               /\ sla_list' = <<>>
    /\ UNCHANGED <<err, fdm_vars, sla_vars, fdm_list, merge_vars>>

\* for match in matches: one pass of the loop body of parse_machines
SlaMatch ==
    /\ pc = "sla_parse"
    /\ nmatch < MaxMatches
    /\ \E id \in MatchIds :
          \E pass \in {SlaLoopBody(Match(id), sla_seen)} :
              /\ sla_seen' = sla_seen \cup pass.add
              /\ sla_printers' = sla_printers \o pass.emit
              /\ IF pass.outcome = "raised"
                 THEN /\ pc' = "raised"
                      /\ err' = [where |-> "extract_sla_printers", type |-> pass.err]
                 ELSE /\ pc' = pc
                      /\ err' = err
    /\ nmatch' = nmatch + 1
    /\ UNCHANGED <<fdm_vars, fdm_list, sla_list, merge_vars>>

\* the matches are exhausted: printers.sort(...); return printers
SlaReturn ==
    /\ pc = "sla_parse"
    /\ sla_list' = sort_printers(sla_printers)
    /\ sla_seen' = {} /\ sla_printers' = <<>> /\ nmatch' = 0
    /\ pc' = "merge_fdm"
    /\ UNCHANGED <<err, fdm_vars, fdm_list, merge_vars>>

(***************************************************************************)
(* merge_printers, one loop iteration per step                             *)
(***************************************************************************)
\* for printer in fdm_list: merged[key|fdm] = printer
MergeAddFdm ==
    /\ pc = "merge_fdm"
    /\ mi <= Len(fdm_list)
    /\ LET printer == fdm_list[mi]
           key == tech_key(printer, "FDM")
       IN  /\ merged' = DictSet(merged, key, printer)
           /\ overwrites' = overwrites + (IF DictHas(merged, key) THEN 1 ELSE 0)
    /\ mi' = mi + 1
    /\ UNCHANGED <<pc, err, fdm_vars, sla_vars, fdm_list, sla_list, all_printers>>

\* the first loop is exhausted: on to the second
MergeFdmDone ==
    /\ pc = "merge_fdm"
    /\ mi > Len(fdm_list)
    /\ pc' = "merge_sla"
    /\ mi' = 1
    /\ UNCHANGED <<err, fdm_vars, sla_vars, fdm_list, sla_list, merged,
                   overwrites, all_printers>>

\* for printer in sla_list: merged[key|sla] = printer
MergeAddSla ==
    /\ pc = "merge_sla"
    /\ mi <= Len(sla_list)
    /\ LET printer == sla_list[mi]
           key == tech_key(printer, "SLA")
       IN  /\ merged' = DictSet(merged, key, printer)
           /\ overwrites' = overwrites + (IF DictHas(merged, key) THEN 1 ELSE 0)
    /\ mi' = mi + 1
    /\ UNCHANGED <<pc, err, fdm_vars, sla_vars, fdm_list, sla_list, all_printers>>

\* result = list(merged.values()); result.sort(...); return result
MergeSort ==
    /\ pc = "merge_sla"
    /\ mi > Len(sla_list)
    /\ all_printers' = sort_printers(DictValues(merged))
    /\ pc' = "merged"
    /\ UNCHANGED <<err, fdm_vars, sla_vars, fdm_list, sla_list, mi, merged,
                   overwrites>>

\* main(): the two extractions, then the merge
Next ==
    \/ GetBrands \/ GetMachineFiles \/ FdmFile \/ FdmBrandDone \/ FdmReturn
    \/ SlaFetch \/ SlaMatch \/ SlaReturn
    \/ MergeAddFdm \/ MergeFdmDone \/ MergeAddSla \/ MergeSort

Spec == Init /\ [][Next]_vars

\* extract_fdm_printers alone
NextFdm == GetBrands \/ GetMachineFiles \/ FdmFile \/ FdmBrandDone \/ FdmReturn

SpecFdm == Init /\ [][NextFdm]_vars

(***************************************************************************)
(* merge_printers on arbitrary argument lists                              *)
(***************************************************************************)
name_B   == <<66>>                \* "B"
name_a   == <<97>>                \* "a"
name_E_3 == <<69, 32, 51>>        \* "E 3"
name_E3h == <<69, 45, 51>>        \* "E-3"
name_e_3 == <<101, 32, 51>>       \* "e 3"
name_E_3s == <<69, 32, 51, 32>>   \* "E 3 "

\* (brand, model) pairs of the first argument list: models as
\* get_base_model_name leaves them (stripped)
FdmNames ==
    {<<name_B, name_E_3>>, <<name_a, name_E_3>>,
     <<name_a, name_E3h>>, <<name_a, name_e_3>>,
     <<name_B, name_E3h>>}

\* (brand, model) pairs of the second argument list: models as the pattern
\* of parse_machines captures them (any text between the quotes)
SlaNames ==
    {<<name_B, name_E_3>>, <<name_a, name_E_3>>,
     <<name_a, name_E3h>>, <<name_a, name_e_3>>,
     <<name_a, name_E_3s>>}

FdmArgs ==
    {Printer(n[1], n[2], "FDM", [x |-> 220000, y |-> 220000, z |-> 250000],
             JNull, JStr(src_OrcaSlicer)) : n \in FdmNames}

SlaArgs ==
    {Printer(n[1], n[2], "SLA", [x |-> 163840, y |-> 102400, z |-> 180000],
             JNull, JStr(src_UVtools)) : n \in SlaNames}

InitMerge ==
    /\ pc = "merge_fdm"
    /\ fdm_list \in SeqUpTo(FdmArgs, MaxLen)
    /\ sla_list \in SeqUpTo(SlaArgs, MaxLen)
    /\ err = NoError
    /\ FdmIdle /\ SlaIdle /\ MergeIdle

NextMerge == MergeAddFdm \/ MergeFdmDone \/ MergeAddSla \/ MergeSort

SpecMerge == InitMerge /\ [][NextMerge]_vars

(***************************************************************************)
(* Claims about merge_printers (checked under SpecMerge)                   *)
(***************************************************************************)
\* every reordering of a list
Reorderings(list) ==
    {[i \in 1..Len(list) |-> list[f[i]]] : f \in Permutations(1..Len(list))}

\* no two records of the list share normalize_key(brand, model)
MergeKeysDistinct(list) ==
    \A i, j \in 1..Len(list) :
        i # j => normalize_key(list[i].brand, list[i].model)
                   # normalize_key(list[j].brand, list[j].model)

\* the dedup key the two extractors use: lower(brand) | lower(model)
ExtractorKey(p) == str_lower(p.brand) \o chr_bar \o str_lower(p.model)

\* the list is deduplicated on the extractors' own key
ExtractorDeduped(list) ==
    \A i, j \in 1..Len(list) :
        i # j => ExtractorKey(list[i]) # ExtractorKey(list[j])

InList(p, list) == \E i \in 1..Len(list) : list[i] = p

\* C1: the list merge_printers returns holds no two records with the same
\* normalized (brand, model) and the same technology.
C1_NoDuplicateKey ==
    pc = "merged" =>
        \A i, j \in 1..Len(all_printers) :
            i # j =>
                ~ ( /\ normalize_key(all_printers[i].brand, all_printers[i].model)
                         = normalize_key(all_printers[j].brand, all_printers[j].model)
                    /\ all_printers[i].technology = all_printers[j].technology )

\* C1 witness: a merge whose input repeated a key, so the dedup had work to do
C1_Witness ==
    /\ pc = "merged"
    /\ overwrites > 0
    /\ Len(all_printers) >= 2

\* C3 as stated: whatever the order of the two argument lists, merge_printers
\* returns the same sequence.
C3_AnyOrderSameResult ==
    pc = "merged" =>
        \A f \in Reorderings(fdm_list), s \in Reorderings(sla_list) :
            merge_printers(f, s) = all_printers

\* C3 amended: when no two records of the same argument list share a merge key,
\* every reordering of the two lists gives the same sequence.
C3_DistinctKeysAnyOrderSameResult ==
    (pc = "merged" /\ MergeKeysDistinct(fdm_list) /\ MergeKeysDistinct(sla_list)) =>
        \A f \in Reorderings(fdm_list), s \in Reorderings(sla_list) :
            merge_printers(f, s) = all_printers

\* C3 witness: both lists hold two records with distinct keys, given out of
\* sorted order, and one brand/model is in both lists (a tie of the sort key)
C3_Witness ==
    /\ pc = "merged"
    /\ MergeKeysDistinct(fdm_list) /\ MergeKeysDistinct(sla_list)
    /\ Len(fdm_list) = 2 /\ Len(sla_list) = 2
    /\ SortKeyLess(fdm_list[2], fdm_list[1])
    /\ SortKeyLess(sla_list[2], sla_list[1])
    /\ \E i, j \in 1..2 : fdm_list[i].model = sla_list[j].model
                          /\ fdm_list[i].brand = sla_list[j].brand

C7_SortedCaseInsensitive ==
    pc = "merged" =>
        \A i \in 1..(Len(all_printers) - 1) :
            LET p == all_printers[i]
                q == all_printers[i + 1]
            IN  ~ PairLess(str_lower(q.brand), str_lower(q.model),
                           str_lower(p.brand), str_lower(p.model))

\* C7 witness: the sort had to move a record whose stored brand sorts first
\* only before case folding ("B" before "a")
C7_Witness ==
    /\ pc = "merged"
    /\ Len(all_printers) >= 2
    /\ all_printers # DictValues(merged)
    /\ \E i \in 1..(Len(all_printers) - 1) :
          StrLess(all_printers[i + 1].brand, all_printers[i].brand)


(***************************************************************************)
(* Claims about the extractors and about a whole build                     *)
(***************************************************************************)
\* C2: no record of the final list of a build has volume.x below 10 mm,
\* whichever source it came from.
C2_FinalFootprintAtLeast10 ==
    pc = "merged" =>
        \A i \in 1..Len(all_printers) : all_printers[i].volume.x >= 10000

\* C5: whatever a machine file answers, extract_fdm_printers emits a record
\* for it or skips it and goes on: it never ends with an uncaught error.
C5_NoUncaughtError == err.where # "extract_fdm_printers"

\* the record the last pass appended
LastRecord == printers[Len(printers)]

\* C8: a printer-definition file under brand "Creality" whose raw name is
\* "Creality Ender 3 0.4mm nozzle", with a footprint x >= 10, is emitted as a
\* record with model "Ender 3" (unless a record of that key was met before).
C8_NozzleQualifierStripped ==
    (last.response = "nozzle" /\ brands[bi] = brand_Creality) =>
        \/ last.outcome = "duplicate"
        \/ last.outcome = "emitted" /\ LastRecord.model = model_Ender_3

\* the first non-empty value among printer_model, name and the filename stem
FirstNonEmptyName(data, file_info) ==
    IF "printer_model" \in DOMAIN data /\ Truthy(data["printer_model"])
    THEN data["printer_model"]
    ELSE IF "name" \in DOMAIN data /\ Truthy(data["name"])
    THEN data["name"]
    ELSE JStr(str_replace(file_info.name, str_json, <<>>))

\* C9: the raw name of a candidate file is the first non-empty value among
\* its printer_model field, its name field and the filename stem, so the
\* record emitted for a file carries the model cleaned from that value.
C9_FirstNonEmptyNameWins ==
    last.outcome = "emitted" =>
        LastRecord.model =
            get_base_model_name(
                FirstNonEmptyName(Body(last.response).v, machine_files[fi - 1]).v,
                brands[bi])

\* the dedup key of a record
RecordKey(p) == unique_key(p.brand, p.model)

\* C10: the dedup key is recorded as seen before the volume check: every
\* record's key is seen, no two records share a key, and a key whose first
\* candidate was rejected by the volume threshold has no record in the run,
\* even when a later candidate with that key has a footprint x >= 10.
C10_SeenBeforeVolumeCheck ==
    /\ vol_rejected \subseteq seen
    /\ \A i \in 1..Len(printers) :
          /\ RecordKey(printers[i]) \in seen
          /\ RecordKey(printers[i]) \notin vol_rejected
          /\ \A j \in 1..Len(printers) :
                RecordKey(printers[i]) = RecordKey(printers[j]) => i = j

\* a candidate with a footprint of 235 mm was dropped as a duplicate of a
\* candidate that the volume threshold had rejected
C10_Witness ==
    /\ last.response = "ender3"
    /\ last.outcome = "duplicate"
    /\ unique_key(brands[bi], model_Ender_3) \in vol_rejected
    /\ \A i \in 1..Len(printers) :
          RecordKey(printers[i]) # unique_key(brands[bi], model_Ender_3)
=============================================================================
